---------------------------- MODULE Spec2Model ----------------------------
(***************************************************************************)
(* A model of src/main.py: the pincode lookup endpoint with its TTL cache  *)
(* (pincode_lookup, fetch_*_pincode, cache_stats, clear_cache,             *)
(* health_check) and the RSS aggregation endpoints (fetch_single_feed,     *)
(* get_rss_feed, get_indian_agri_rss and their fallback generators).       *)
(*                                                                         *)
(* pincode_cache is a cachetools.TTLCache.  The library is not part of the *)
(* repository; its operations are modelled after cachetools 5.x, where an  *)
(* entry stored at time t is reachable while timer() < t + ttl.            *)
(***************************************************************************)
EXTENDS Integers, Sequences, FiniteSets, Bags, TLC

VARIABLES
    pincode_cache,  \* the TTLCache: entries [key, value, expires], oldest store first
    clock,          \* time.monotonic(), in seconds
    lookups,        \* bag of pincode_lookup coroutines that are suspended or preempted
    response,       \* what the most recent handler step returned to its caller
    feed_request,   \* the feed endpoint being served, and how far its handler is
    feed_tasks,     \* the fetch_single_feed tasks of that request, one per source
    feed_locals,    \* all_articles, filtered_articles and unique_articles of the handler
    feed_entries    \* feed.entries of each task, as feedparser delivered them

vars == <<pincode_cache, clock, lookups, response, feed_request, feed_tasks, feed_locals,
          feed_entries>>

cache_vars == <<pincode_cache, clock, lookups>>

feed_vars == <<feed_request, feed_tasks, feed_locals, feed_entries>>

---------------------------------------------------------------------------
(* Bounds of the model *)

\* pincode_cache = TTLCache(maxsize=1000, ...): the capacity, scaled down so
\* that a full cache is reachable.
maxsize == 2

\* The clock advances in steps of ttl \div TicksPerTTL seconds ...
TicksPerTTL == 2

\* ... and stops after MaxTicks steps.
MaxTicks == 2

\* pincode_lookup requests in flight at the same time.
MaxLookups == 2

---------------------------------------------------------------------------
(* Program constants *)

ttl == 86400

TickSeconds == ttl \div TicksPerTTL

MaxClock == MaxTicks * TickSeconds

COUNTRY_CODE_RULES ==
    [c \in {"+91", "+1", "+44", "+971", "+966", "+81", "+49", "+33", "+86"} |->
        CASE c = "+91"  -> [name |-> "India", length |-> 10, pincode_length |-> 6, api_type |-> "india"]
          [] c = "+1"   -> [name |-> "USA/Canada", length |-> 10, pincode_length |-> 5, api_type |-> "zippopotam"]
          [] c = "+44"  -> [name |-> "UK", length |-> 10, pincode_length |-> 7, api_type |-> "postcodes_io"]
          [] c = "+971" -> [name |-> "UAE", length |-> 9, pincode_length |-> 5, api_type |-> "manual"]
          [] c = "+966" -> [name |-> "Saudi Arabia", length |-> 9, pincode_length |-> 5, api_type |-> "manual"]
          [] c = "+81"  -> [name |-> "Japan", length |-> 10, pincode_length |-> 7, api_type |-> "manual"]
          [] c = "+49"  -> [name |-> "Germany", length |-> 11, pincode_length |-> 5, api_type |-> "manual"]
          [] c = "+33"  -> [name |-> "France", length |-> 9, pincode_length |-> 5, api_type |-> "manual"]
          [] c = "+86"  -> [name |-> "China", length |-> 11, pincode_length |-> 6, api_type |-> "manual"]]

---------------------------------------------------------------------------
(* Inputs: the (country_code, pincode) query parameters a client sends *)

\* The requests of Spec, where lookups interleave.
LookupRequests ==
    { <<"+91", "12:34567">>,    \* India, long enough, with a colon in the pincode
      <<"+91:12", "34567">>,    \* no key of COUNTRY_CODE_RULES
      <<"+91", "1100">>,        \* India, shorter than 6
      <<"+971", "12345">>,      \* UAE: manual entry
      <<"+1", "90210">> }       \* USA/Canada

\* The requests of SpecCapacity: more keys than the cache holds.
ManualRequests ==
    { <<"+971", "12345">>,      \* UAE
      <<"+966", "12345">>,      \* Saudi Arabia
      <<"+81", "1234567">>,     \* Japan
      <<"+49", "12345">> }      \* Germany

\* The requests of SpecUpstream: one per fetch function, and a manual one.
UpstreamRequests ==
    { <<"+91", "12:34567">>,    \* India
      <<"+1", "90210">>,        \* USA/Canada
      <<"+44", "SW1A 1AA">>,    \* UK
      <<"+971", "12345">> }     \* UAE

\* hashlib.md5(s.encode()).hexdigest() on the key strings of the requests.
md5_hexdigest(s) ==
    CASE s = "+91:12:34567" -> "30ff8b79471049d469654a9e62b747bf"
      [] s = "+91:1100"     -> "749365e9347c76efa281fcf35881285f"
      [] s = "+971:12345"   -> "00ab034e82f1bc51442512733b6df0f0"
      [] s = "+966:12345"   -> "026dbf6887464ca97555948175658ad9"
      [] s = "+81:1234567"  -> "724f2be6b71d90f598643271926148f3"
      [] s = "+49:12345"    -> "8a465e8920e93ff856bee2df1847fabc"
      [] s = "+1:90210"     -> "c61922dd0ab03fc46e5453e60877542e"
      [] s = "+44:SW1A 1AA" -> "1a31fe50b6e6dd18e1423323fdd48b87"

\* cache_key = hashlib.md5(f"{country_code}:{pincode}".encode()).hexdigest()
cache_key(country_code, pincode) == md5_hexdigest(country_code \o ":" \o pincode)

---------------------------------------------------------------------------
(* dict helpers *)

\* d.get(k, default)
Get(d, k, default) == IF k \in DOMAIN d THEN d[k] ELSE default

\* {**d, **e}
Merge(d, e) == [k \in DOMAIN d \cup DOMAIN e |-> IF k \in DOMAIN e THEN e[k] ELSE d[k]]

---------------------------------------------------------------------------
(* cachetools.TTLCache *)

Range(s) == { s[i] : i \in DOMAIN s }

\* TTLCache.expire(time): drop every entry with expires <= time.
TTLCache_expire(cache, time) == SelectSeq(cache, LAMBDA e : time < e.expires)

\* Mutant: an entry is still found at the instant it expires.
TTLCache_contains_inclusive(cache, key, time) ==
    \E e \in Range(cache) : e.key = key /\ time <= e.expires

\* key in cache: the entry exists and timer() < expires.  Nothing is removed.
TTLCache_contains(cache, key, time) ==
    \E e \in Range(cache) : e.key = key /\ time < e.expires

\* cache[key]: the value, or KeyError when the entry is absent or expired.
KeyError == [raised |-> "KeyError"]

TTLCache_getitem(cache, key, time) ==
    IF \E e \in Range(cache) : e.key = key /\ time < e.expires
    THEN [raised |-> "", value |-> (CHOOSE e \in Range(cache) : e.key = key).value]
    ELSE KeyError

\* Mutant: the entry stored last is removed.
TTLCache_popitem_newest(cache, time) ==
    LET live == TTLCache_expire(cache, time) IN SubSeq(live, 1, Len(live) - 1)

\* TTLCache.popitem(): expire, then remove the entry that was stored first.
TTLCache_popitem(cache, time) == Tail(TTLCache_expire(cache, time))

RECURSIVE TTLCache_evict(_, _)
\* Cache.__setitem__: while currsize + 1 > maxsize: self.popitem()
TTLCache_evict(cache, time) ==
    IF Len(cache) + 1 > maxsize
    THEN TTLCache_evict(TTLCache_popitem(cache, time), time)
    ELSE cache

\* cache[key] = value: expire; a key already present is replaced and moved to
\* the end with a fresh expiry; a new key first evicts down to maxsize - 1.
TTLCache_setitem(cache, key, value, time) ==
    LET live == TTLCache_expire(cache, time)
        link == [key |-> key, value |-> value, expires |-> time + ttl]
    IN  IF \E e \in Range(live) : e.key = key
        THEN Append(SelectSeq(live, LAMBDA e : e.key # key), link)
        ELSE Append(TTLCache_evict(live, time), link)

\* len(cache): the entries that have not expired.
TTLCache_len(cache, time) == Len(TTLCache_expire(cache, time))

\* Mutant: a single popitem().
TTLCache_clear_one(cache) == IF cache = << >> THEN cache ELSE Tail(cache)

\* cache.clear(): popitem() until the cache is empty.
TTLCache_clear(cache) == << >>

---------------------------------------------------------------------------
(* Upstream HTTP exchanges: what client.get(url) and response.json() do *)

Raised(e) == [raised |-> e]
Http(status_code, json) == [raised |-> "", status_code |-> status_code, json |-> json]
\* response.json() on a body that is no JSON raises.
InvalidJson == [valid |-> FALSE]
Json(v) == [valid |-> TRUE, value |-> v]

PostOffice ==
    [Name |-> "Connaught Place", Block |-> "New Delhi", District |-> "Central Delhi",
     State |-> "Delhi"]

IndiaExchanges ==
    { Raised("ConnectTimeout"),
      Http(200, Json(<< [Status |-> "Success", PostOffice |-> <<PostOffice>>] >>)),
      Http(200, Json(<< [Status |-> "Error", PostOffice |-> << >>] >>)),
      Http(200, InvalidJson),
      Http(404, InvalidJson) }

GeonamesPlace ==
    [placeName |-> "Connaught Place", adminName1 |-> "Delhi", adminName2 |-> "New Delhi",
     countryCode |-> "IN"]

GeonamesExchanges ==
    { Raised("ConnectTimeout"),
      Http(200, Json([postalCodes |-> <<GeonamesPlace>>])),
      Http(200, Json([postalCodes |-> << >>])),
      Http(401, InvalidJson) }

ZippopotamPlace ==
    [place_name |-> "Beverly Hills", state |-> "California", state_abbreviation |-> "CA"]

ZippopotamExchanges ==
    { Raised("ConnectTimeout"),
      Http(200, Json([places |-> <<ZippopotamPlace>>])),
      Http(200, Json([places |-> << >>])),
      Http(404, Json([places |-> << >>])) }

PostcodesResult ==
    [admin_ward |-> "St James's", admin_district |-> "Westminster", region |-> "London",
     country |-> "England"]

PostcodesExchanges ==
    { Raised("ConnectTimeout"),
      Http(200, Json([status |-> 200, result |-> <<PostcodesResult>>])),
      Http(404, Json([status |-> 404, result |-> << >>])) }

---------------------------------------------------------------------------
(* The fetch functions *)

\* fallback_geonames_lookup(code, country_code), given its HTTP exchange x.
fallback_geonames_lookup(x) ==
    IF x.raised # ""
    THEN [success |-> FALSE, message |-> "Fallback service error: " \o x.raised]
    ELSE IF x.status_code = 200 /\ ~x.json.valid
    THEN [success |-> FALSE, message |-> "Fallback service error: JSONDecodeError"]
    ELSE IF x.status_code = 200 /\ Len(x.json.value.postalCodes) > 0
    THEN LET place == x.json.value.postalCodes[1]
         IN  [success |-> TRUE,
              data |-> [area |-> place.placeName, town |-> place.adminName2,
                        city |-> place.adminName2, district |-> place.adminName1,
                        state |-> place.adminName1, country |-> place.countryCode],
              source |-> "geonames.org"]
    ELSE [success |-> FALSE, message |-> "No address found in fallback service"]

\* fetch_india_pincode(pincode), given the exchanges with api.postalpincode.in
\* (x) and, when that yields nothing, with geonames (g).
fetch_india_pincode(x, g) ==
    IF x.raised # ""
    THEN [success |-> FALSE, message |-> "Error fetching India pincode: " \o x.raised,
          error |-> x.raised]
    ELSE IF x.status_code = 200 /\ ~x.json.valid
    THEN [success |-> FALSE, message |-> "Error fetching India pincode: JSONDecodeError",
          error |-> "JSONDecodeError"]
    ELSE IF /\ x.status_code = 200
            /\ Len(x.json.value) > 0
            /\ x.json.value[1].Status = "Success"
            /\ Len(x.json.value[1].PostOffice) > 0
    THEN LET office == x.json.value[1].PostOffice[1]
         IN  [success |-> TRUE,
              data |-> [area |-> office.Name, town |-> office.Block,
                        city |-> office.District, district |-> office.District,
                        state |-> office.State, country |-> "India"],
              source |-> "api.postalpincode.in"]
    ELSE fallback_geonames_lookup(g)

\* fetch_zippopotam(pincode, country_code), given its HTTP exchange x.
fetch_zippopotam(x) ==
    IF x.raised # ""
    THEN [success |-> FALSE, message |-> "Error fetching zipcode: " \o x.raised,
          error |-> x.raised]
    ELSE IF x.status_code = 200 /\ ~x.json.valid
    THEN [success |-> FALSE, message |-> "Error fetching zipcode: JSONDecodeError",
          error |-> "JSONDecodeError"]
    ELSE IF x.status_code = 200 /\ Len(x.json.value.places) > 0
    THEN LET place == x.json.value.places[1]
         IN  [success |-> TRUE,
              data |-> [area |-> place.place_name, town |-> place.place_name,
                        city |-> place.place_name, district |-> place.state,
                        state |-> place.state, country |-> "United States"],
              source |-> "api.zippopotam.us"]
    ELSE [success |-> FALSE, message |-> "No address found for this zipcode"]

\* fetch_uk_postcode(postcode), given its HTTP exchange x.
fetch_uk_postcode(x) ==
    IF x.raised # ""
    THEN [success |-> FALSE, message |-> "Error fetching UK postcode: " \o x.raised,
          error |-> x.raised]
    ELSE IF x.status_code = 200 /\ ~x.json.valid
    THEN [success |-> FALSE, message |-> "Error fetching UK postcode: JSONDecodeError",
          error |-> "JSONDecodeError"]
    ELSE IF x.status_code = 200 /\ x.json.value.status = 200 /\ Len(x.json.value.result) > 0
    THEN LET result == x.json.value.result[1]
         IN  [success |-> TRUE,
              data |-> [area |-> result.admin_ward, town |-> result.admin_district,
                        city |-> result.admin_district, district |-> result.region,
                        state |-> result.region, country |-> "United Kingdom"],
              source |-> "api.postcodes.io"]
    ELSE [success |-> FALSE, message |-> "No address found for this postcode"]

\* The exchanges a lookup of the given api_type can meet: <<primary, fallback>>.
NoExchange == Raised("unused")

Exchanges(api_type) ==
    CASE api_type = "india"        -> IndiaExchanges \X GeonamesExchanges
      [] api_type = "zippopotam"   -> ZippopotamExchanges \X {NoExchange}
      [] api_type = "postcodes_io" -> PostcodesExchanges \X {NoExchange}

\* The exchanges drawn where lookups interleave: per fetch function, one
\* that finds the address and one that does not.
RepresentativeExchanges(api_type) ==
    CASE api_type = "india" ->
            { <<Http(200, Json(<< [Status |-> "Success", PostOffice |-> <<PostOffice>>] >>)), NoExchange>>,
              <<Http(404, InvalidJson), Http(200, Json([postalCodes |-> << >>]))>> }
      [] api_type = "zippopotam" ->
            { <<Http(200, Json([places |-> <<ZippopotamPlace>>])), NoExchange>>,
              <<Raised("ConnectTimeout"), NoExchange>> }

\* pincode_lookup, lines 248-255: dispatch on api_type.
fetch_address(api_type, xs) ==
    CASE api_type = "india"        -> fetch_india_pincode(xs[1], xs[2])
      [] api_type = "zippopotam"   -> fetch_zippopotam(xs[1])
      [] api_type = "postcodes_io" -> fetch_uk_postcode(xs[1])

---------------------------------------------------------------------------
(* pincode_lookup *)

\* lines 236-242
manual_result(country_info, pincode) ==
    [success |-> FALSE,
     message |-> "Manual entry required for " \o country_info.name,
     requires_manual |-> TRUE,
     country |-> country_info.name,
     pincode |-> pincode]

\* Mutant: a result that succeeded names the country as upstream does.
lookup_result_upstream_country(address_data, country_info, pincode) ==
    IF Get(address_data, "success", FALSE)
    THEN [success |-> TRUE,
          data |-> address_data.data,
          country |-> address_data.data.country,
          pincode |-> pincode,
          source |-> Get(address_data, "source", "primary")]
    ELSE [success |-> FALSE,
          message |-> Get(address_data, "message", "No address found for this pincode"),
          country |-> country_info.name,
          pincode |-> pincode,
          suggestions |-> Get(address_data, "suggestions", << >>)]

\* lines 257-272
lookup_result(address_data, country_info, pincode) ==
    IF Get(address_data, "success", FALSE)
    THEN [success |-> TRUE,
          data |-> address_data.data,
          country |-> country_info.name,
          pincode |-> pincode,
          source |-> Get(address_data, "source", "primary")]
    ELSE [success |-> FALSE,
          message |-> Get(address_data, "message", "No address found for this pincode"),
          country |-> country_info.name,
          pincode |-> pincode,
          suggestions |-> Get(address_data, "suggestions", << >>)]

\* Mutant: the entry is returned as stored.
cached_response_unmarked(cached_result) == cached_result

\* line 215
cached_response(cached_result) == Merge(cached_result, [cached |-> TRUE, cache_hit |-> TRUE])

\* Mutant: only successful results are stored.
store_result_if_success(cache, key, result, time) ==
    IF result.success THEN TTLCache_setitem(cache, key, result, time) ELSE cache

\* lines 243 and 275: pincode_cache[cache_key] = result
store_result(cache, key, result, time) == TTLCache_setitem(cache, key, result, time)

\* A response of the lookup endpoint.  upstream counts the upstream fetches
\* the request awaited.
LookupResponse(country_code, pincode, status_code, body, upstream) ==
    [endpoint |-> "pincode_lookup", country_code |-> country_code, pincode |-> pincode,
     status_code |-> status_code, body |-> body, upstream |-> upstream]

NoResponse == [endpoint |-> "none"]

Coroutine(pc, country_code, pincode) ==
    [pc |-> pc, country_code |-> country_code, pincode |-> pincode]

\* lines 205-244: a request arrives and runs up to its first suspension point:
\* the membership test (on a hit the read of the entry follows as a separate
\* step), the two validations, the manual-entry answer, or the start of the
\* upstream fetch.
pincode_lookup(country_code, pincode) ==
    LET key == cache_key(country_code, pincode) IN
    /\ BagCardinality(lookups) < MaxLookups
    /\ UNCHANGED <<clock, feed_vars>>
    /\ IF TTLCache_contains(pincode_cache, key, clock)
       THEN /\ lookups' = lookups (+) SetToBag({Coroutine("read", country_code, pincode)})
            /\ response' = NoResponse
            /\ UNCHANGED pincode_cache
       ELSE IF country_code \notin DOMAIN COUNTRY_CODE_RULES
       THEN /\ response' = LookupResponse(country_code, pincode, 400,
                               [detail |-> "Unsupported country code: " \o country_code], 0)
            /\ UNCHANGED <<pincode_cache, lookups>>
       ELSE LET country_info == COUNTRY_CODE_RULES[country_code] IN
            IF Len(pincode) < country_info.pincode_length
            THEN /\ response' = LookupResponse(country_code, pincode, 400,
                                    [detail |-> "Pincode too short. Required for " \o country_info.name], 0)
                 /\ UNCHANGED <<pincode_cache, lookups>>
            ELSE IF country_info.api_type = "manual"
            THEN LET result == manual_result(country_info, pincode) IN
                 /\ pincode_cache' = store_result(pincode_cache, key, result, clock)
                 /\ response' = LookupResponse(country_code, pincode, 200, result, 0)
                 /\ UNCHANGED lookups
            ELSE /\ lookups' = lookups (+) SetToBag({Coroutine("fetch", country_code, pincode)})
                 /\ response' = NoResponse
                 /\ UNCHANGED pincode_cache

\* lines 214-215: the read that follows a successful membership test.  A
\* KeyError is raised outside the try block and reaches the framework, which
\* answers 500.
pincode_lookup_read(co) ==
    LET key == cache_key(co.country_code, co.pincode)
        got == TTLCache_getitem(pincode_cache, key, clock)
    IN  /\ co.pc = "read"
        /\ lookups' = lookups (-) SetToBag({co})
        /\ response' =
              IF got.raised = ""
              THEN LookupResponse(co.country_code, co.pincode, 200, cached_response(got.value), 0)
              ELSE LookupResponse(co.country_code, co.pincode, 500,
                                  [detail |-> "Internal Server Error"], 0)
        /\ UNCHANGED <<pincode_cache, clock, feed_vars>>

\* lines 246-276: the upstream fetch returns; the result is built, stored
\* and returned.
pincode_lookup_fetched(co, xs) ==
    LET key == cache_key(co.country_code, co.pincode)
        country_info == COUNTRY_CODE_RULES[co.country_code]
        address_data == fetch_address(country_info.api_type, xs)
        result == lookup_result(address_data, country_info, co.pincode)
    IN  /\ co.pc = "fetch"
        /\ lookups' = lookups (-) SetToBag({co})
        /\ pincode_cache' = store_result(pincode_cache, key, result, clock)
        /\ response' = LookupResponse(co.country_code, co.pincode, 200, result, 1)
        /\ UNCHANGED <<clock, feed_vars>>

\* lines 787-795
cache_stats ==
    /\ response' = [endpoint |-> "cache_stats",
                    cache_size |-> TTLCache_len(pincode_cache, clock),
                    max_size |-> 1000, ttl_seconds |-> 86400]
    /\ UNCHANGED <<pincode_cache, clock, lookups, feed_vars>>

\* lines 766-785
health_check ==
    /\ response' = [endpoint |-> "health_check", status |-> "healthy",
                    cache_stats |-> [size |-> TTLCache_len(pincode_cache, clock),
                                     max_size |-> 1000, ttl_seconds |-> 86400]]
    /\ UNCHANGED <<pincode_cache, clock, lookups, feed_vars>>

\* lines 797-804
clear_cache ==
    /\ pincode_cache' = TTLCache_clear(pincode_cache)
    /\ response' = [endpoint |-> "clear_cache", message |-> "Cache cleared successfully"]
    /\ UNCHANGED <<clock, lookups, feed_vars>>

\* Time passes.
Tick ==
    /\ clock + TickSeconds <= MaxClock
    /\ clock' = clock + TickSeconds
    /\ response' = NoResponse
    /\ UNCHANGED <<pincode_cache, lookups, feed_vars>>

---------------------------------------------------------------------------
(* Text.  A str is modelled as the sequence of its characters, so that
   lower(), the in operator, slicing and comparison are computed. *)

\* The characters the model's texts use, in code point order.
Alphabet ==
    << " ", "#", ",", "-", ".", "0", "1", "2", "3", "4", "5", "6", "7", "8", "9", ":",
       "A", "B", "C", "D", "E", "F", "G", "H", "I", "J", "K", "L", "M",
       "N", "O", "P", "Q", "R", "S", "T", "U", "V", "W", "X", "Y", "Z",
       "a", "b", "c", "d", "e", "f", "g", "h", "i", "j", "k", "l", "m",
       "n", "o", "p", "q", "r", "s", "t", "u", "v", "w", "x", "y", "z" >>

\* ord(c), up to an order-preserving renumbering.
Ord(c) == CHOOSE i \in DOMAIN Alphabet : Alphabet[i] = c

UpperFirst == Ord("A")
LowerFirst == Ord("a")
Letters == Ord("Z") - Ord("A") + 1

\* The lower-case form of a character.
lower_char(c) ==
    IF Ord(c) >= UpperFirst /\ Ord(c) < UpperFirst + Letters
    THEN Alphabet[Ord(c) - UpperFirst + LowerFirst]
    ELSE c

LowerCase == [i \in DOMAIN Alphabet |-> lower_char(Alphabet[i])]

\* str.lower()
lower(text) == [i \in DOMAIN text |-> LowerCase[Ord(text[i])]]

\* keyword in content
contains(content, keyword) ==
    \E i \in 1..(Len(content) - Len(keyword) + 1) :
        SubSeq(content, i, i + Len(keyword) - 1) = keyword

\* s[:n]
Take(s, n) == SubSeq(s, 1, IF Len(s) < n THEN Len(s) ELSE n)

RECURSIVE str_less(_, _)
\* a < b on str
str_less(a, b) ==
    IF a = << >> THEN b # << >>
    ELSE IF b = << >> THEN FALSE
    ELSE IF Head(a) = Head(b) THEN str_less(Tail(a), Tail(b))
    ELSE Ord(Head(a)) < Ord(Head(b))

\* any(keyword in content for keyword in keywords)
any_keyword(content, keywords) ==
    \E k \in DOMAIN keywords : contains(content, keywords[k])

---------------------------------------------------------------------------
(* The source registries and keyword sets *)

RSS_SOURCES ==
    <<
       [name |-> "Rice Market News",
        keywords |-> << <<"r", "i", "c", "e">>,
                      <<"b", "a", "s", "m", "a", "t", "i">>,
                      <<"g", "r", "a", "i", "n">>,
                      <<"e", "x", "p", "o", "r", "t">>,
                      <<"i", "m", "p", "o", "r", "t">>,
                      <<"p", "r", "i", "c", "e">> >>],
       [name |-> "Commodity Markets",
        keywords |-> << <<"r", "i", "c", "e">>,
                      <<"w", "h", "e", "a", "t">>,
                      <<"g", "r", "a", "i", "n">>,
                      <<"a", "g", "r", "i", "c", "u", "l", "t", "u", "r", "e">>,
                      <<"c", "o", "m", "m", "o", "d", "i", "t", "y">> >>],
       [name |-> "Agriculture News",
        keywords |-> << <<"r", "i", "c", "e">>,
                      <<"c", "r", "o", "p">>,
                      <<"h", "a", "r", "v", "e", "s", "t">>,
                      <<"f", "a", "r", "m">>,
                      <<"a", "g", "r", "i", "c", "u", "l", "t", "u", "r", "e">> >>],
       [name |-> "Business Standard Commodities",
        keywords |-> << <<"r", "i", "c", "e">>,
                      <<"b", "a", "s", "m", "a", "t", "i">>,
                      <<"e", "x", "p", "o", "r", "t">>,
                      <<"c", "o", "m", "m", "o", "d", "i", "t", "y">> >>],
       [name |-> "The Hindu Business",
        keywords |-> << <<"r", "i", "c", "e">>,
                      <<"b", "a", "s", "m", "a", "t", "i">>,
                      <<"e", "x", "p", "o", "r", "t">>,
                      <<"c", "o", "m", "m", "o", "d", "i", "t", "y">>,
                      <<"a", "g", "r", "i", "c", "u", "l", "t", "u", "r", "e">> >>],
       [name |-> "Economic Times Markets",
        keywords |-> << <<"r", "i", "c", "e">>,
                      <<"c", "o", "m", "m", "o", "d", "i", "t", "y">>,
                      <<"e", "x", "p", "o", "r", "t">>,
                      <<"p", "r", "i", "c", "e">> >>] >>

INDIAN_AGRI_RSS_SOURCES ==
    <<
       [name |-> "DGFT Official", type |-> "policy",
        keywords |-> << <<"d", "g", "f", "t">>,
                      <<"e", "x", "p", "o", "r", "t">>,
                      <<"i", "m", "p", "o", "r", "t">>,
                      <<"p", "o", "l", "i", "c", "y">>,
                      <<"n", "o", "t", "i", "f", "i", "c", "a", "t", "i", "o", "n">>,
                      <<"c", "i", "r", "c", "u", "l", "a", "r">> >>],
       [name |-> "Agriculture Ministry", type |-> "government",
        keywords |-> << <<"a", "g", "r", "i", "c", "u", "l", "t", "u", "r", "e">>,
                      <<"f", "a", "r", "m">>,
                      <<"f", "a", "r", "m", "e", "r">>,
                      <<"k", "i", "s", "a", "n">>,
                      <<"c", "r", "o", "p">>,
                      <<"s", "u", "b", "s", "i", "d", "y">>,
                      <<"m", "s", "p">> >>],
       [name |-> "Business Standard Agriculture", type |-> "news",
        keywords |-> << <<"a", "g", "r", "i", "c", "u", "l", "t", "u", "r", "e">>,
                      <<"f", "a", "r", "m">>,
                      <<"c", "r", "o", "p">>,
                      <<"r", "i", "c", "e">>,
                      <<"w", "h", "e", "a", "t">>,
                      <<"e", "x", "p", "o", "r", "t">>,
                      <<"i", "m", "p", "o", "r", "t">> >>],
       [name |-> "The Hindu Agriculture", type |-> "news",
        keywords |-> << <<"a", "g", "r", "i", "c", "u", "l", "t", "u", "r", "e">>,
                      <<"f", "a", "r", "m">>,
                      <<"f", "a", "r", "m", "e", "r">>,
                      <<"c", "r", "o", "p">>,
                      <<"m", "a", "n", "d", "i">>,
                      <<"k", "i", "s", "a", "n">> >>],
       [name |-> "Economic Times Agriculture", type |-> "news",
        keywords |-> << <<"a", "g", "r", "i", "c", "u", "l", "t", "u", "r", "e">>,
                      <<"f", "a", "r", "m">>,
                      <<"c", "r", "o", "p">>,
                      <<"c", "o", "m", "m", "o", "d", "i", "t", "y">>,
                      <<"e", "x", "p", "o", "r", "t">>,
                      <<"i", "m", "p", "o", "r", "t">> >>] >>

\* get_rss_feed, lines 615-619
rice_keywords ==
    << <<"r", "i", "c", "e">>,
       <<"b", "a", "s", "m", "a", "t", "i">>,
       <<"g", "r", "a", "i", "n">>,
       <<"c", "e", "r", "e", "a", "l">>,
       <<"p", "a", "d", "d", "y">>,
       <<"e", "x", "p", "o", "r", "t">>,
       <<"i", "m", "p", "o", "r", "t">>,
       <<"c", "o", "m", "m", "o", "d", "i", "t", "y">>,
       <<"p", "r", "i", "c", "e">>,
       <<"m", "a", "r", "k", "e", "t">>,
       <<"h", "a", "r", "v", "e", "s", "t">>,
       <<"c", "r", "o", "p">>,
       <<"a", "g", "r", "i", "c", "u", "l", "t", "u", "r", "e">> >>

\* get_indian_agri_rss, lines 672-678
agriculture_keywords ==
    << <<"a", "g", "r", "i", "c", "u", "l", "t", "u", "r", "e">>,
       <<"f", "a", "r", "m">>,
       <<"c", "r", "o", "p">>,
       <<"f", "a", "r", "m", "e", "r">>,
       <<"k", "i", "s", "a", "n">>,
       <<"m", "a", "n", "d", "i">>,
       <<"r", "i", "c", "e">>,
       <<"w", "h", "e", "a", "t">>,
       <<"p", "u", "l", "s", "e", "s">>,
       <<"c", "e", "r", "e", "a", "l", "s">>,
       <<"g", "r", "a", "i", "n", "s">>,
       <<"b", "a", "s", "m", "a", "t", "i">>,
       <<"e", "x", "p", "o", "r", "t">>,
       <<"i", "m", "p", "o", "r", "t">>,
       <<"d", "g", "f", "t">>,
       <<"p", "o", "l", "i", "c", "y">>,
       <<"s", "u", "b", "s", "i", "d", "y">>,
       <<"m", "s", "p">>,
       <<"m", "i", "n", "i", "m", "u", "m", " ", "s", "u", "p", "p", "o", "r", "t", " ", "p", "r", "i", "c", "e">>,
       <<"f", "a", "r", "m", "i", "n", "g">>,
       <<"h", "a", "r", "v", "e", "s", "t">>,
       <<"i", "r", "r", "i", "g", "a", "t", "i", "o", "n">>,
       <<"o", "r", "g", "a", "n", "i", "c">>,
       <<"f", "e", "r", "t", "i", "l", "i", "z", "e", "r">>,
       <<"p", "e", "s", "t", "i", "c", "i", "d", "e">>,
       <<"s", "e", "e", "d">>,
       <<"c", "u", "l", "t", "i", "v", "a", "t", "i", "o", "n">> >>

\* datetime.now().strftime("%Y-%m-%d %H:%M") and datetime.now().isoformat()
\* of the instants at which a request may be served.
Nows ==
    { [strftime |-> <<"2", "0", "2", "4", "-", "0", "1", "-", "1", "5", " ", "1", "0", ":", "3", "0">>,
       isoformat |-> <<"2", "0", "2", "4", "-", "0", "1", "-", "1", "5", "T", "1", "0", ":", "3", "0", ":", "0", "0">>] }

\* get_rice_fallback_articles: trends
rice_trends ==
    { <<"r", "i", "s", "i", "n", "g">>,
      <<"f", "a", "l", "l", "i", "n", "g">>,
      <<"s", "t", "a", "b", "l", "e">>,
      <<"v", "o", "l", "a", "t", "i", "l", "e">>,
      <<"s", "t", "r", "e", "n", "g", "t", "h", "e", "n", "i", "n", "g">> }

\* get_rice_fallback_articles: conditions
rice_conditions ==
    { <<"s", "t", "r", "o", "n", "g", " ", "e", "x", "p", "o", "r", "t", " ", "d", "e", "m", "a", "n", "d">>,
      <<"s", "u", "p", "p", "l", "y", " ", "c", "o", "n", "s", "t", "r", "a", "i", "n", "t", "s">>,
      <<"g", "o", "o", "d", " ", "m", "o", "n", "s", "o", "o", "n">>,
      <<"t", "r", "a", "d", "e", " ", "n", "e", "g", "o", "t", "i", "a", "t", "i", "o", "n", "s">> }

\* get_indian_agri_fallback_articles: crops
agri_crops ==
    { <<"r", "i", "c", "e">>,
      <<"w", "h", "e", "a", "t">>,
      <<"p", "u", "l", "s", "e", "s">>,
      <<"s", "u", "g", "a", "r", "c", "a", "n", "e">>,
      <<"c", "o", "t", "t", "o", "n">>,
      <<"m", "a", "i", "z", "e">>,
      <<"m", "i", "l", "l", "e", "t", "s">> }

\* get_indian_agri_fallback_articles: trends (unused by the titles)
agri_trends ==
    { <<"i", "n", "c", "r", "e", "a", "s", "e", "s">>,
      <<"s", "t", "r", "e", "n", "g", "t", "h", "e", "n", "s">>,
      <<"i", "m", "p", "r", "o", "v", "e", "s">>,
      <<"r", "i", "s", "e", "s">>,
      <<"b", "o", "o", "s", "t", "s">> }


\* get_rice_fallback_articles(current_time), with the three random.choice
\* draws t1, c1 and t2.
get_rice_fallback_articles(now, t1, c1, t2) ==
    << [title |-> <<"B", "a", "s", "m", "a", "t", "i", " ", "r", "i", "c", "e", " ", "p", "r", "i", "c", "e", "s", " ">> \o t1 \o <<" ", "a", "m", "i", "d", " ">> \o c1 \o <<" ", "-", " ">> \o now.strftime,
        link |-> "#",
        published |-> now.isoformat,
        summary |-> <<"L", "a", "t", "e", "s", "t", " ", "u", "p", "d", "a", "t", "e", "s", " ", "o", "n", " ", "b", "a", "s", "m", "a", "t", "i", " ", "r", "i", "c", "e", " ", "p", "r", "i", "c", "e", "s", " ", "a", "n", "d", " ", "m", "a", "r", "k", "e", "t", " ", "c", "o", "n", "d", "i", "t", "i", "o", "n", "s">>,
        source |-> "Market Intelligence",
        type |-> "price"],
       [title |-> <<"R", "i", "c", "e", " ", "e", "x", "p", "o", "r", "t", " ", "d", "e", "m", "a", "n", "d", " ">> \o t2 \o <<" ", "i", "n", " ", "i", "n", "t", "e", "r", "n", "a", "t", "i", "o", "n", "a", "l", " ", "m", "a", "r", "k", "e", "t", "s", " ", "-", " ">> \o now.strftime,
        link |-> "#",
        published |-> now.isoformat,
        summary |-> <<"I", "n", "t", "e", "r", "n", "a", "t", "i", "o", "n", "a", "l", " ", "d", "e", "m", "a", "n", "d", " ", "f", "o", "r", " ", "I", "n", "d", "i", "a", "n", " ", "r", "i", "c", "e", " ", "s", "h", "o", "w", "s", " ", "s", "i", "g", "n", "i", "f", "i", "c", "a", "n", "t", " ", "c", "h", "a", "n", "g", "e", "s">>,
        source |-> "Trade Watch",
        type |-> "export"] >>


\* get_indian_agri_fallback_articles(current_time), with the two
\* random.choice draws c1 and c2.
get_indian_agri_fallback_articles(now, c1, c2) ==
    << [title |-> <<"D", "G", "F", "T", " ", "u", "p", "d", "a", "t", "e", "s", " ", "a", "g", "r", "i", "c", "u", "l", "t", "u", "r", "a", "l", " ", "e", "x", "p", "o", "r", "t", " ", "p", "o", "l", "i", "c", "y", " ", "f", "o", "r", " ">> \o c1 \o <<" ", "-", " ">> \o now.strftime,
        link |-> "https://dgft.gov.in",
        published |-> now.isoformat,
        summary |-> <<"L", "a", "t", "e", "s", "t", " ", "D", "G", "F", "T", " ", "n", "o", "t", "i", "f", "i", "c", "a", "t", "i", "o", "n", "s", " ", "f", "o", "r", " ", "a", "g", "r", "i", "c", "u", "l", "t", "u", "r", "a", "l", " ", "e", "x", "p", "o", "r", "t", "s", " ", "a", "n", "d", " ", "p", "o", "l", "i", "c", "y", " ", "u", "p", "d", "a", "t", "e", "s">>,
        source |-> "DGFT Official",
        type |-> "policy"],
       [title |-> <<"G", "o", "v", "e", "r", "n", "m", "e", "n", "t", " ", "a", "n", "n", "o", "u", "n", "c", "e", "s", " ", "n", "e", "w", " ", "s", "u", "b", "s", "i", "d", "y", " ", "s", "c", "h", "e", "m", "e", " ", "f", "o", "r", " ">> \o c2 \o <<" ", "f", "a", "r", "m", "e", "r", "s", " ", "-", " ">> \o now.strftime,
        link |-> "https://pib.gov.in",
        published |-> now.isoformat,
        summary |-> <<"N", "e", "w", " ", "a", "g", "r", "i", "c", "u", "l", "t", "u", "r", "a", "l", " ", "s", "u", "b", "s", "i", "d", "y", " ", "s", "c", "h", "e", "m", "e", "s", " ", "a", "n", "n", "o", "u", "n", "c", "e", "d", " ", "f", "o", "r", " ", "f", "a", "r", "m", "e", "r", "s", " ", "w", "e", "l", "f", "a", "r", "e">>,
        source |-> "Agriculture Ministry",
        type |-> "subsidy"] >>

---------------------------------------------------------------------------
(* Inputs: what the upstream feeds answer *)

\* client.get raises (network error, timeout) or raise_for_status() does.
FeedFailures == { [kind |-> "network"], [kind |-> "timeout"], [kind |-> "status"] }

Feed(entries) == [kind |-> "feed", entries |-> entries]

\* Two entries: one on rice exports, one that only the word 'market' relates.
FeedExports ==
    Feed(<< [title |-> <<"R", "i", "c", "e", " ", "e", "x", "p", "o", "r", "t", "s", " ", "r", "i", "s", "e">>, link |-> "https://example.org/a", summary |-> <<"B", "a", "s", "m", "a", "t", "i", " ", "d", "e", "m", "a", "n", "d", " ", "g", "r", "o", "w", "s">>, published |-> <<"T", "u", "e", ",", " ", "0", "2", " ", "J", "a", "n", " ", "2", "0", "2", "4">>],
            [title |-> <<"S", "t", "o", "c", "k", " ", "m", "a", "r", "k", "e", "t", " ", "r", "a", "l", "l", "y">>, link |-> "https://example.org/a"] >>)

\* The same headline in capitals, and an entry on wheat alone.
FeedCapitals ==
    Feed(<< [title |-> <<"R", "I", "C", "E", " ", "E", "X", "P", "O", "R", "T", "S", " ", "R", "I", "S", "E">>, link |-> "https://example.org/a", summary |-> << >>, published |-> <<"W", "e", "d", ",", " ", "0", "3", " ", "J", "a", "n", " ", "2", "0", "2", "4">>],
            [title |-> <<"W", "h", "e", "a", "t", " ", "o", "u", "t", "p", "u", "t", " ", "u", "p">>, link |-> "https://example.org/a", summary |-> <<"F", "a", "r", "m", " ", "r", "e", "p", "o", "r", "t">>, published |-> <<"M", "o", "n", ",", " ", "0", "1", " ", "J", "a", "n", " ", "2", "0", "2", "4">>] >>)

\* Nothing that any keyword matches.
FeedSports ==
    Feed(<< [title |-> <<"C", "u", "p", " ", "f", "i", "n", "a", "l", " ", "t", "o", "n", "i", "g", "h", "t">>, link |-> "https://example.org/a", summary |-> <<"K", "i", "c", "k", " ", "o", "f", "f", " ", "a", "t", " ", "8">>, published |-> <<"T", "h", "u", ",", " ", "0", "4", " ", "J", "a", "n", " ", "2", "0", "2", "4">>] >>)

\* Twelve entries on rice exports with titles of their own, tagged with the source.
FeedLong(s) ==
    Feed([n \in 1..12 |->
            [title |-> <<"R", "i", "c", "e", " ", "e", "x", "p", "o", "r", "t", " ", "l", "o", "t", " ">> \o <<Alphabet[Ord("0") + s], Alphabet[Ord("a") + n]>>,
             link |-> "https://example.org/lot",
             published |-> <<"F", "r", "i", ",", " ", "0", "5", " ", "J", "a", "n", " ", "2", "0", "2", "4", " ">> \o <<Alphabet[Ord("0") + s], Alphabet[Ord("a") + n]>>]])

\* An entry whose summary names its subject only after 200 characters.
FeedBulletin ==
    Feed(<< [title |-> <<"W", "e", "e", "k", "l", "y", " ", "b", "u", "l", "l", "e", "t", "i", "n">>, link |-> "https://example.org/b",
             summary |-> [i \in 1..200 |-> "."] \o <<" ", "e", "x", "p", "o", "r", "t", " ", "c", "r", "o", "p">>,
             published |-> <<"S", "a", "t", ",", " ", "0", "6", " ", "J", "a", "n", " ", "2", "0", "2", "4">>] >>)

\* The feeds a source may answer with, by its position in the registry.
FeedsOf(s) ==
    CASE s = 1 -> {FeedSports, FeedExports, FeedLong(s)}
      [] s = 2 -> {FeedSports, FeedCapitals}
      [] s = 3 -> {FeedCapitals, FeedLong(s)}
      [] s = 4 -> {FeedExports, FeedBulletin}
      [] s = 5 -> {FeedLong(s)}
      [] OTHER -> {FeedExports}

FeedExchanges(s) == FeedFailures \cup FeedsOf(s)

---------------------------------------------------------------------------
(* fetch_single_feed *)

Returned(v) == [raised |-> "", value |-> v]

\* lines 572-574: client.get and raise_for_status
feed_request_raises(exchange) == exchange.kind # "feed"

\* line 580
entry_content(entry) == lower(entry.title \o <<" ">> \o Get(entry, "summary", << >>))

\* lines 588-595
feed_article(source, entry, now) ==
    [title |-> entry.title,
     link |-> entry.link,
     published |-> Get(entry, "published", now.isoformat),
     summary |-> Take(Get(entry, "summary", << >>), 200),
     source |-> source.name,
     type |-> Get(source, "type", "news")]

\* Mutant: every one of the first ten entries becomes an article.
feed_articles_unfiltered(source, entries, now) ==
    [i \in 1..Len(Take(entries, 10)) |-> feed_article(source, entries[i], now)]

\* lines 576-597: the articles of the first ten entries that a keyword of the
\* source matches.
feed_articles(source, entries, now) ==
    LET matching == SelectSeq(Take(entries, 10),
                              LAMBDA entry : any_keyword(entry_content(entry), source.keywords))
    IN  [i \in 1..Len(matching) |-> feed_article(source, matching[i], now)]

\* line 576: feed.entries, when the request did not raise
parsed_entries(exchange) ==
    IF feed_request_raises(exchange) THEN << >> ELSE exchange.entries

\* lines 569-600: whatever the request raises is caught, logged and answered
\* with the empty list.
fetch_single_feed(source, exchange, now) ==
    IF feed_request_raises(exchange)
    THEN Returned(<< >>)
    ELSE Returned(feed_articles(source, exchange.entries, now))

---------------------------------------------------------------------------
(* get_rss_feed and get_indian_agri_rss *)

Endpoints == {"rss", "indian_agri_rss"}

SourcesOf(endpoint) ==
    IF endpoint = "rss" THEN RSS_SOURCES ELSE INDIAN_AGRI_RSS_SOURCES

KeywordsOf(endpoint) ==
    IF endpoint = "rss" THEN rice_keywords ELSE agriculture_keywords

Pending == [state |-> "pending"]

\* A task that has finished: whether it logged "Error fetching from ...",
\* and what it returned.
Done(failed, result) == [state |-> "done", failed |-> failed, result |-> result]

\* asyncio.gather(*tasks, return_exceptions=True): the results of the tasks
\* in the order of the tasks, an exception of a task as its result.
gather(tasks) == Returned([s \in DOMAIN tasks |-> tasks[s].result])

RECURSIVE extend_lists_until_failure(_)
\* Mutant: the loop stops at the first source that contributed nothing.
extend_lists_until_failure(results) ==
    IF results = << >> \/ Head(results).value = << >> THEN << >>
    ELSE Head(results).value \o extend_lists_until_failure(Tail(results))

RECURSIVE extend_lists(_)
\* lines 609-612: all_articles.extend(result) for each result that is a list
extend_lists(results) ==
    IF results = << >> THEN << >>
    ELSE (IF Head(results).raised = "" THEN Head(results).value ELSE << >>)
         \o extend_lists(Tail(results))

\* line 622
article_content(article) == lower(article.title \o <<" ">> \o Get(article, "summary", << >>))

\* lines 621-624
filter_articles(all_articles, keywords) ==
    SelectSeq(all_articles, LAMBDA article : any_keyword(article_content(article), keywords))

RECURSIVE unique_by_exact_title(_, _)
\* Mutant: titles are compared as written.
unique_by_exact_title(articles, seen_titles) ==
    IF articles = << >> THEN << >>
    ELSE LET article == Head(articles) IN
         IF article.title \in seen_titles
         THEN unique_by_exact_title(Tail(articles), seen_titles)
         ELSE <<article>> \o unique_by_exact_title(Tail(articles), seen_titles \cup {article.title})

RECURSIVE unique_by_title(_, _)
\* lines 626-633
unique_by_title(articles, seen_titles) ==
    IF articles = << >> THEN << >>
    ELSE LET article == Head(articles)
             title_lower == lower(article.title)
         IN  IF title_lower \in seen_titles
             THEN unique_by_title(Tail(articles), seen_titles)
             ELSE <<article>> \o unique_by_title(Tail(articles), seen_titles \cup {title_lower})

\* list.sort(key=published, reverse=True) puts article where a stable sort
\* leaves it: behind every article published at the same time or later.
insert_by_published(sorted, article) ==
    LET key(a) == Get(a, "published", << >>)
        behind == { i \in DOMAIN sorted : ~ str_less(key(sorted[i]), key(article)) }
        n == IF behind = {} THEN 0 ELSE CHOOSE i \in behind : \A j \in behind : j <= i
    IN  SubSeq(sorted, 1, n) \o <<article>> \o SubSeq(sorted, n + 1, Len(sorted))

RECURSIVE sort_by_published(_)
\* lines 635 and 694
sort_by_published(articles) ==
    IF articles = << >> THEN << >>
    ELSE insert_by_published(sort_by_published(SubSeq(articles, 1, Len(articles) - 1)),
                             articles[Len(articles)])

\* The random.choice draws a fallback generator may make.
FallbackDraws(endpoint) ==
    IF endpoint = "rss"
    THEN { <<t1, c1, t2>> : t1 \in rice_trends, c1 \in rice_conditions, t2 \in rice_trends }
    ELSE { <<c1, c2>> : c1 \in agri_crops, c2 \in agri_crops }

\* lines 639 and 698
fallback_articles(endpoint, now, draw) ==
    IF endpoint = "rss"
    THEN get_rice_fallback_articles(now, draw[1], draw[2], draw[3])
    ELSE get_indian_agri_fallback_articles(now, draw[1], draw[2])

FeedResponse(endpoint, status_code, body) ==
    [endpoint |-> endpoint, status_code |-> status_code, body |-> body]

\* lines 641-646 and 700-705
feed_success_body(unique_articles, now) ==
    [count |-> Len(unique_articles),
     articles |-> Take(unique_articles, 20),
     last_updated |-> now.isoformat,
     status |-> "success"]

\* lines 648-657 and 707-716: the handler of an exception raised in the body
feed_error_body(endpoint, now, draw, e) ==
    [count |-> 5,
     articles |-> fallback_articles(endpoint, now, draw),
     last_updated |-> now.isoformat,
     status |-> "fallback",
     error |-> e]

NoLocals == [all_articles |-> << >>, filtered_articles |-> << >>, unique_articles |-> << >>]

\* lines 606 and 663: a request arrives and starts one task per source.
get_feed(endpoint) ==
    /\ feed_request.pc = "done"
    /\ feed_request' = [endpoint |-> endpoint, pc |-> "gather"]
    /\ feed_tasks' = [s \in DOMAIN SourcesOf(endpoint) |-> Pending]
    /\ feed_locals' = NoLocals
    /\ feed_entries' = [s \in DOMAIN SourcesOf(endpoint) |-> << >>]
    /\ response' = NoResponse
    /\ UNCHANGED cache_vars

get_rss_feed == get_feed("rss")

get_indian_agri_rss == get_feed("indian_agri_rss")

\* lines 569-600: the task of source s meets its upstream and returns.
fetch_single_feed_returns(s, exchange, now) ==
    /\ feed_request.pc = "gather"
    /\ feed_tasks[s] = Pending
    /\ feed_tasks' = [feed_tasks EXCEPT ![s] =
           Done(feed_request_raises(exchange),
                fetch_single_feed(SourcesOf(feed_request.endpoint)[s], exchange, now))]
    /\ feed_entries' = [feed_entries EXCEPT ![s] = parsed_entries(exchange)]
    /\ response' = NoResponse
    /\ UNCHANGED <<feed_request, feed_locals, cache_vars>>

\* lines 607-657 and 664-716: every task has returned; the handler collects,
\* filters, deduplicates and sorts the articles and answers.
get_feed_gathered(endpoint, now) ==
    LET results == gather(feed_tasks)
        all_articles == extend_lists(results.value)
        filtered_articles == filter_articles(all_articles, KeywordsOf(endpoint))
        unique_articles == sort_by_published(unique_by_title(filtered_articles, {}))
    IN  /\ feed_request = [endpoint |-> endpoint, pc |-> "gather"]
        /\ \A s \in DOMAIN feed_tasks : feed_tasks[s].state = "done"
        /\ feed_request' = [endpoint |-> endpoint, pc |-> "done"]
        /\ feed_locals' = [all_articles |-> all_articles,
                           filtered_articles |-> filtered_articles,
                           unique_articles |-> unique_articles]
        /\ IF results.raised # ""
           THEN \E draw \in FallbackDraws(endpoint) :
                    response' = FeedResponse(endpoint, 200,
                                    feed_error_body(endpoint, now, draw, results.raised))
           ELSE IF unique_articles = << >>
           THEN \E draw \in FallbackDraws(endpoint) :
                    response' = FeedResponse(endpoint, 200,
                                    feed_success_body(fallback_articles(endpoint, now, draw), now))
           ELSE response' = FeedResponse(endpoint, 200, feed_success_body(unique_articles, now))
        /\ UNCHANGED <<feed_tasks, feed_entries, cache_vars>>

---------------------------------------------------------------------------
(* get_live_basmati_prices and get_market_sentiment.  Money is counted in
   cents and a random factor in millionths, so that round(x, 2) and the
   comparisons with 5 are computed on exact numbers. *)

BASE_BASMATI_PRICES ==
    << [product |-> "Traditional Basmati", base_price |-> 1450, specification |-> "8.10mm max",
        packing |-> "50 KG PP", port |-> "Mundra", volatility |-> 20000],
       [product |-> "Pusa White Sella", base_price |-> 1380, specification |-> "Premium Grade",
        packing |-> "50 KG PP", port |-> "Nhava Sheva", volatility |-> 25000],
       [product |-> "Steam Basmati", base_price |-> 1420, specification |-> "8.00mm max",
        packing |-> "50 KG PP", port |-> "Mundra", volatility |-> 18000],
       [product |-> "Organic Brown", base_price |-> 1580, specification |-> "Certified",
        packing |-> "25 KG Jute", port |-> "Any Port", volatility |-> 30000] >>

Million == 1000000

Cents(dollars) == dollars * 100

\* round(): the integer nearest to n / d, a tie going to the even one.
RoundHalfEven(n, d) ==
    LET q == n \div d
        r == n % d
    IN  IF 2 * r < d THEN q
        ELSE IF 2 * r > d THEN q + 1
        ELSE IF q % 2 = 0 THEN q ELSE q + 1

Abs(n) == IF n < 0 THEN -n ELSE n

RECURSIVE Digits(_)
\* str(n) for a natural number n
Digits(n) ==
    IF n < 10 THEN <<Alphabet[Ord("0") + n]>>
    ELSE Digits(n \div 10) \o <<Alphabet[Ord("0") + (n % 10)]>>

RECURSIVE Grouped(_)
\* format(n, ",") for a natural number n
Grouped(n) ==
    IF n < 1000 THEN Digits(n)
    ELSE Grouped(n \div 1000) \o <<",">> \o
         <<Alphabet[Ord("0") + ((n % 1000) \div 100)],
           Alphabet[Ord("0") + ((n % 100) \div 10)],
           Alphabet[Ord("0") + (n % 10)]>>

\* f"{x:.1f}" of an amount of cents
OneDecimal(cents) ==
    LET tenths == RoundHalfEven(cents, 10)
    IN  Digits(tenths \div 10) \o <<".">> \o Digits(tenths % 10)

\* lines 538-543: the four random.choice draws
SentimentFactors ==
    [export_demand : {"strong", "moderate", "weak"},
     supply_conditions : {"tight", "adequate", "surplus"},
     currency_impact : {"favorable", "neutral", "unfavorable"},
     global_demand : {"increasing", "stable", "decreasing"}]

\* lines 545-553
overall_sentiment(factors) ==
    LET positive_factors ==
            Cardinality({ k \in DOMAIN factors :
                            factors[k] \in {"strong", "adequate", "favorable", "increasing"} })
    IN  IF positive_factors >= 3 THEN "bullish"
        ELSE IF positive_factors <= 1 THEN "bearish"
        ELSE "neutral"

\* lines 535-559
get_market_sentiment(factors) ==
    [overall_sentiment |-> overall_sentiment(factors), factors |-> factors]

\* lines 484-489: the range random.uniform draws trend_factor from
TrendRange(sentiment) ==
    IF sentiment = "bullish" THEN <<5000, 15000>>
    ELSE IF sentiment = "bearish" THEN <<-15000, -5000>>
    ELSE <<-5000, 5000>>

\* The draws <<trend_factor, volatility_factor>> of lines 484-491 that are
\* taken for a product: both at their least, those that move the price by
\* 5.01 and by 5.00 down and up, and both at their greatest.
FactorDraws(details, sentiment) ==
    LET lo == TrendRange(sentiment)[1]
        hi == TrendRange(sentiment)[2]
        near == IF sentiment = "bearish" THEN hi ELSE lo
        edge == (5 * Million) \div details.base_price
    IN  << <<lo, -details.volatility>>,
           <<near, -(edge + 4) - near>>,
           <<near, -edge - near>>,
           <<near, edge - near>>,
           <<near, (edge + 4) - near>>,
           <<hi, details.volatility>> >>

\* The draws of one request, one per product: the k-th draw for the first
\* product, the next for the second, and so on in a circle.
DrawsOfRequest(sentiment, k) ==
    [i \in DOMAIN BASE_BASMATI_PRICES |->
        LET draws == FactorDraws(BASE_BASMATI_PRICES[i], sentiment)
        IN  draws[((k + i) % Len(draws)) + 1]]

None == << >>

\* Mutant: a change of exactly 5 counts as a move.
price_trend_inclusive(price_change) ==
    IF price_change >= Cents(5) THEN "up"
    ELSE IF price_change <= -Cents(5) THEN "down"
    ELSE "stable"

\* lines 496-504: trend
price_trend(price_change) ==
    IF price_change > Cents(5) THEN "up"
    ELSE IF price_change < -Cents(5) THEN "down"
    ELSE "stable"

\* lines 496-504: change_display
change_display(price_change) ==
    IF price_change > Cents(5) THEN <<"+", "$">> \o OneDecimal(Abs(price_change))
    ELSE IF price_change < -Cents(5) THEN <<"-", "$">> \o OneDecimal(Abs(price_change))
    ELSE None

\* lines 481-516: the entry of one product, for the draw <<trend_factor,
\* volatility_factor>>.  Prices are in cents.
live_price(details, draw) ==
    LET base_price == Cents(details.base_price)
        \* round(base_price * (1 + trend_factor + volatility_factor), 2); the
        \* whole number of cents of base_price is taken out of the rounding
        final_price == base_price +
                       RoundHalfEven(details.base_price * (draw[1] + draw[2]), Million \div 100)
        price_change == final_price - base_price
    IN  [product |-> details.product,
         specification |-> details.specification,
         packing |-> details.packing,
         port |-> details.port,
         price |-> <<"$">> \o Grouped(RoundHalfEven(final_price, 100)),
         trend |-> price_trend(price_change),
         change |-> change_display(price_change),
         base_price |-> base_price,
         current_price |-> final_price]

\* lines 473-524: one request.  get_market_sentiment catches what it raises
\* and nothing else in the body raises, so the answer is the one of the try
\* block.
get_live_basmati_prices(factors, draws) ==
    LET market_trend == get_market_sentiment(factors) IN
    /\ \A i \in DOMAIN BASE_BASMATI_PRICES :
           LET range == TrendRange(market_trend.overall_sentiment)
               volatility == BASE_BASMATI_PRICES[i].volatility
           IN  /\ draws[i][1] \in range[1]..range[2]
               /\ draws[i][2] \in -volatility..volatility
    /\ response' = [endpoint |-> "live_basmati_prices",
                    status_code |-> 200,
                    body |-> [status |-> "success",
                              prices |-> [i \in DOMAIN BASE_BASMATI_PRICES |->
                                             live_price(BASE_BASMATI_PRICES[i], draws[i])],
                              market_sentiment |-> market_trend,
                              update_frequency |-> "120 seconds"]]
    /\ UNCHANGED <<cache_vars, feed_vars>>

---------------------------------------------------------------------------

Init ==
    /\ pincode_cache = << >>
    /\ clock = 0
    /\ lookups = EmptyBag
    /\ response = NoResponse
    /\ feed_request = [endpoint |-> "none", pc |-> "done"]
    /\ feed_tasks = << >>
    /\ feed_locals = NoLocals
    /\ feed_entries = << >>

Lookup == \E r \in LookupRequests : pincode_lookup(r[1], r[2])

LookupRead == \E co \in BagToSet(lookups) : pincode_lookup_read(co)

LookupFetched ==
    \E co \in BagToSet(lookups) :
        /\ co.pc = "fetch"
        /\ \E xs \in RepresentativeExchanges(COUNTRY_CODE_RULES[co.country_code].api_type) :
               pincode_lookup_fetched(co, xs)

Next ==
    \/ Lookup
    \/ LookupRead
    \/ LookupFetched
    \/ cache_stats
    \/ health_check
    \/ clear_cache
    \/ Tick

\* Lookups of every kind interleave with each other, with the maintenance
\* endpoints and with the passing of time.
Spec == Init /\ [][Next]_vars

---------------------------------------------------------------------------
(* More keys than the cache holds *)

LookupManual == \E r \in ManualRequests : pincode_lookup(r[1], r[2])

NextCapacity ==
    \/ LookupManual
    \/ LookupRead
    \/ clear_cache
    \/ Tick

SpecCapacity == Init /\ [][NextCapacity]_vars

---------------------------------------------------------------------------
(* Every outcome of the upstream services, one lookup at a time *)

LookupAlone ==
    /\ lookups = EmptyBag
    /\ \E r \in UpstreamRequests : pincode_lookup(r[1], r[2])

LookupFetchedAny ==
    \E co \in BagToSet(lookups) :
        /\ co.pc = "fetch"
        /\ \E xs \in Exchanges(COUNTRY_CODE_RULES[co.country_code].api_type) :
               pincode_lookup_fetched(co, xs)

NextUpstream ==
    \/ LookupAlone
    \/ LookupRead
    \/ LookupFetchedAny
    \/ clear_cache

SpecUpstream == Init /\ [][NextUpstream]_vars

---------------------------------------------------------------------------
(* The feed endpoints *)

FetchSingleFeedReturns ==
    \E s \in DOMAIN feed_tasks : \E exchange \in FeedExchanges(s) : \E now \in Nows :
        fetch_single_feed_returns(s, exchange, now)

GetRssFeedGathered == \E now \in Nows : get_feed_gathered("rss", now)

GetIndianAgriRssGathered == \E now \in Nows : get_feed_gathered("indian_agri_rss", now)

NextFeeds ==
    \/ get_rss_feed
    \/ get_indian_agri_rss
    \/ FetchSingleFeedReturns
    \/ GetRssFeedGathered
    \/ GetIndianAgriRssGathered

SpecFeeds == Init /\ [][NextFeeds]_vars

---------------------------------------------------------------------------
(* The price endpoint *)

GetLivePrices ==
    \E factors \in SentimentFactors :
        LET sentiment == overall_sentiment(factors) IN
        \E k \in DOMAIN FactorDraws(BASE_BASMATI_PRICES[1], sentiment) :
            get_live_basmati_prices(factors, DrawsOfRequest(sentiment, k))

NextPrices == GetLivePrices

SpecPrices == Init /\ [][NextPrices]_vars

---------------------------------------------------------------------------
(* Vocabulary of the properties *)

KeyOf(co) == cache_key(co.country_code, co.pincode)

\* The entries stored under key, expired or not.
Entries(key) == { e \in Range(pincode_cache) : e.key = key }

\* now minus insertion time: setitem stores expires = insertion time + ttl.
Age(e) == clock - (e.expires - ttl)

Fresh(key) == \E e \in Entries(key) : Age(e) < ttl

Stale(key) == \A e \in Entries(key) : Age(e) >= ttl

Stored(key) == (CHOOSE e \in Entries(key) : TRUE).value

\* The two validations of pincode_lookup hold of the request.
Valid(country_code, pincode) ==
    /\ country_code \in DOMAIN COUNTRY_CODE_RULES
    /\ Len(pincode) >= COUNTRY_CODE_RULES[country_code].pincode_length

IsLookup(resp) == resp.endpoint = "pincode_lookup"

\* The step in which coroutine co, of the given pc, resumes and returns.
Resumes(co, pc) ==
    /\ co.pc = pc
    /\ BagIn(co, lookups)
    /\ lookups' = lookups (-) SetToBag({co})

\* The arrival of a request went to the hit path: it waits to read the entry.
TakesHitPath(r) ==
    /\ lookups' = lookups (+) SetToBag({Coroutine("read", r[1], r[2])})
    /\ UNCHANGED pincode_cache

\* The arrival went past the membership test: validation, then the manual
\* answer or the upstream fetch.
TakesMissPath(r) ==
    \/ /\ IsLookup(response') /\ response'.status_code = 400
       /\ UNCHANGED pincode_cache
    \/ /\ IsLookup(response') /\ response'.status_code = 200
       /\ Get(response'.body, "requires_manual", FALSE)
    \/ lookups' = lookups (+) SetToBag({Coroutine("fetch", r[1], r[2])})

\* A feed endpoint has answered, and its answer is the latest response.
FeedAnswered(endpoint) ==
    /\ feed_request = [endpoint |-> endpoint, pc |-> "done"]
    /\ response.endpoint = endpoint

\* Every task of the request logged an error.
EverySourceFailed == \A s \in DOMAIN feed_tasks : feed_tasks[s].failed

\* What the task of source s returned.
ArticlesOf(s) == feed_tasks[s].result.value

\* The articles of the aggregate that carry the name of source s.
AggregateOf(endpoint, s) ==
    SelectSeq(feed_locals.all_articles, LAMBDA a : a.source = SourcesOf(endpoint)[s].name)

SameTitle(a, b) == lower(a.title) = lower(b.title)

---------------------------------------------------------------------------
(* C1 *)

\* C1: when every source of /rss fails, or nothing is left after filtering
\* and deduplication, the response is a 200 whose status is "fallback" and
\* whose articles list has exactly 2 items.
C1_FallbackIsMarked ==
    (/\ FeedAnswered("rss")
     /\ EverySourceFailed \/ feed_locals.unique_articles = << >>)
    => /\ response.status_code = 200
       /\ response.body.status = "fallback"
       /\ Len(response.body.articles) = 2

---------------------------------------------------------------------------
(* C2 *)

\* C2, as stated: a lookup whose key holds an unexpired entry takes the hit
\* path, makes no upstream fetch, and returns exactly the stored payload with
\* cached = TRUE added.
C2_HitReturnsPayloadPlusCached ==
    [][ /\ \A r \in LookupRequests :
              Fresh(cache_key(r[1], r[2])) /\ pincode_lookup(r[1], r[2]) => TakesHitPath(r)
        /\ \A co \in BagToSet(lookups) :
              Resumes(co, "read") /\ Fresh(KeyOf(co)) =>
                 response' = LookupResponse(co.country_code, co.pincode, 200,
                                 Merge(Stored(KeyOf(co)), [cached |-> TRUE]), 0) ]_vars

\* C2, amended: ... and returns every field of the stored payload unchanged,
\* with cached = TRUE and cache_hit = TRUE added, after no upstream fetch.
C2_HitReturnsPayloadPlusFlags ==
    [][ /\ \A r \in LookupRequests :
              Fresh(cache_key(r[1], r[2])) /\ pincode_lookup(r[1], r[2]) => TakesHitPath(r)
        /\ \A co \in BagToSet(lookups) :
              Resumes(co, "read") /\ Fresh(KeyOf(co)) =>
                 response' = LookupResponse(co.country_code, co.pincode, 200,
                                 Merge(Stored(KeyOf(co)), [cached |-> TRUE, cache_hit |-> TRUE]), 0) ]_vars

\* A hit has been answered from an entry that an upstream fetch had stored.
C2_Witness ==
    /\ IsLookup(response) /\ response.status_code = 200
    /\ response.upstream = 0
    /\ Get(response.body, "cached", FALSE)
    /\ Get(response.body, "success", FALSE)
    /\ Fresh(cache_key(response.country_code, response.pincode))

---------------------------------------------------------------------------
(* C3 *)

\* C3: a cache hit never returns an entry whose age is ttl or more, and a
\* lookup whose key holds only such an entry is treated as a miss: it goes
\* through validation and the manual answer or the upstream fetch again.
C3_NoStaleHit ==
    [][ /\ \A co \in BagToSet(lookups) :
              Resumes(co, "read") /\ response'.status_code = 200 =>
                 \E e \in Entries(KeyOf(co)) : Age(e) < ttl
        /\ \A r \in LookupRequests :
              Stale(cache_key(r[1], r[2])) /\ pincode_lookup(r[1], r[2]) =>
                 TakesMissPath(r) /\ ~TakesHitPath(r) ]_vars

\* A lookup whose key is held by the cache in an expired entry has gone
\* through validation again, which rejected it and left the entry in place.
C3_Witness ==
    /\ IsLookup(response)
    /\ response.status_code = 400
    /\ Entries(cache_key(response.country_code, response.pincode)) # {}
    /\ Stale(cache_key(response.country_code, response.pincode))

---------------------------------------------------------------------------
(* C4 *)

\* C4: a request whose country_code is no key of COUNTRY_CODE_RULES, or whose
\* pincode is too short, is answered with 400, whatever the cache holds.
C4_InvalidRequestGets400 ==
    IsLookup(response) /\ ~Valid(response.country_code, response.pincode)
        => response.status_code = 400

---------------------------------------------------------------------------
(* C5 *)

\* C5: when a feed endpoint answers, every task has completed; a source that
\* failed contributed the empty list and nothing else did so on its behalf;
\* the aggregate holds, source by source and in the order of the sources,
\* exactly what each task returned; and the answer came from the normal
\* path, not from the handler of a top-level exception.
C5_FailuresStayLocal ==
    \A endpoint \in Endpoints :
        FeedAnswered(endpoint) =>
            /\ \A s \in DOMAIN feed_tasks : feed_tasks[s].state = "done"
            /\ \A s \in DOMAIN feed_tasks : feed_tasks[s].failed => ArticlesOf(s) = << >>
            /\ \A s \in DOMAIN feed_tasks : AggregateOf(endpoint, s) = ArticlesOf(s)
            /\ \A i, j \in DOMAIN feed_locals.all_articles :
                   LET before(a, b) ==
                           \E s, t \in DOMAIN feed_tasks :
                               /\ s < t
                               /\ a.source = SourcesOf(endpoint)[s].name
                               /\ b.source = SourcesOf(endpoint)[t].name
                   IN  before(feed_locals.all_articles[j], feed_locals.all_articles[i]) => j < i
            /\ "error" \notin DOMAIN response.body
            /\ response.body.status # "fallback"

\* C5 witness: /indian-agri-rss has answered a request in which one source
\* failed and a later source returned articles.
C5_Witness ==
    /\ FeedAnswered("indian_agri_rss")
    /\ \E s, t \in DOMAIN feed_tasks :
           /\ s < t
           /\ feed_tasks[s].failed
           /\ ~ feed_tasks[t].failed
           /\ ArticlesOf(t) # << >>
           /\ AggregateOf("indian_agri_rss", t) = ArticlesOf(t)

---------------------------------------------------------------------------
(* C6 *)

\* C6: no two articles of a response have titles that are equal after
\* lower-casing; and of the fetched articles that reach deduplication, the
\* first of each title in source-then-feed order is the one that survives:
\* the deduplicated articles are those firsts, each once, and a response of
\* fetched articles carries none but them.
C6_TitlesAreUnique ==
    \A endpoint \in Endpoints :
        FeedAnswered(endpoint) =>
            LET articles == response.body.articles
                filtered == feed_locals.filtered_articles
                unique == feed_locals.unique_articles
                firsts == { i \in DOMAIN filtered :
                              \A j \in 1..(i - 1) : ~ SameTitle(filtered[j], filtered[i]) }
            IN  /\ \A i, j \in DOMAIN articles : i < j => ~ SameTitle(articles[i], articles[j])
                /\ Range(unique) = { filtered[i] : i \in firsts }
                /\ Len(unique) = Cardinality(firsts)
                /\ unique # << >> => Range(articles) \subseteq Range(unique)

\* C6 witness: /rss has answered a request in which two sources delivered
\* the same headline in different capitals; the response carries the first.
C6_Witness ==
    /\ FeedAnswered("rss")
    /\ \E i, j \in DOMAIN feed_locals.filtered_articles :
           LET a == feed_locals.filtered_articles[i]
               b == feed_locals.filtered_articles[j]
           IN  /\ i < j
               /\ a.title # b.title
               /\ SameTitle(a, b)
               /\ \A h \in 1..(i - 1) : ~ SameTitle(feed_locals.filtered_articles[h], a)
               /\ \E k \in DOMAIN response.body.articles : response.body.articles[k] = a
               /\ \A k \in DOMAIN response.body.articles : response.body.articles[k] # b

---------------------------------------------------------------------------
(* C7 *)

\* C7: the result returned on a miss that passes validation (success,
\* not-found, manual entry) is stored under the request's key when the
\* response is returned: the cache maps the key to exactly that payload.
C7_MissResultIsStored ==
    /\ IsLookup(response)
    /\ response.status_code = 200
    /\ "cached" \notin DOMAIN response.body
    => LET key == cache_key(response.country_code, response.pincode) IN
       /\ Cardinality(Entries(key)) = 1
       /\ Stored(key) = response.body
       /\ Fresh(key)

\* A structured not-found failure that came from upstream has been stored.
C7_Witness ==
    /\ IsLookup(response)
    /\ response.status_code = 200
    /\ response.upstream = 1
    /\ ~response.body.success
    /\ "cached" \notin DOMAIN response.body
    /\ Stored(cache_key(response.country_code, response.pincode)) = response.body

---------------------------------------------------------------------------
(* C8 *)

CacheKeys(cache) == { e.key : e \in Range(cache) }

\* The step stores a key the cache does not hold while the cache is full.
InsertsNewKeyWhenFull ==
    /\ Len(pincode_cache) = maxsize
    /\ pincode_cache' # pincode_cache
    /\ pincode_cache' # << >>
    /\ pincode_cache'[Len(pincode_cache')].key \notin CacheKeys(pincode_cache)

\* The entries the step removed were stored no later than the ones it kept,
\* and at most one of them had not expired.
EvictsEarliest ==
    LET removed == Range(pincode_cache) \ Range(pincode_cache') IN
    /\ removed # {}
    /\ \A e \in removed : \A f \in Range(pincode_cache) \ removed : e.expires <= f.expires
    /\ Cardinality({ e \in removed : clock < e.expires }) <= 1
    /\ pincode_cache[1] \in removed

---------------------------------------------------------------------------
(* C9 *)

\* C9: when clear_cache has returned the cache holds nothing; cache_stats
\* then reports size 0 and a lookup of any key is a miss.
C9_ClearEmpties ==
    /\ [](response.endpoint = "clear_cache" =>
             Len(pincode_cache) = 0 /\ TTLCache_len(pincode_cache, clock) = 0)
    /\ [][ response.endpoint = "clear_cache" =>
             /\ response'.endpoint = "cache_stats" => response'.cache_size = 0
             /\ \A r \in LookupRequests :
                   pincode_lookup(r[1], r[2]) => TakesMissPath(r) /\ ~TakesHitPath(r) ]_vars

\* clear_cache has returned while a lookup that had found its key in the
\* cache has not read the entry yet.
C9_Witness ==
    /\ response.endpoint = "clear_cache"
    /\ \E co \in BagToSet(lookups) : co.pc = "read"

---------------------------------------------------------------------------
(* C10 *)

\* C10: a request with a supported country_code and a long enough pincode is
\* answered with a result object that has success, country and pincode,
\* never with an unhandled failure.
C10_ValidRequestGetsResult ==
    IsLookup(response) /\ Valid(response.country_code, response.pincode)
        => /\ response.status_code = 200
           /\ {"success", "country", "pincode"} \subseteq DOMAIN response.body

---------------------------------------------------------------------------
(* C11 *)

\* The exchange did not deliver a usable answer: client.get raised, the
\* status is not 200, or the body is not the JSON the fetch function reads.
Degraded(x) == x.raised # "" \/ x.status_code # 200 \/ ~ x.json.valid

\* The upstream lookup as a whole degraded: for India the primary service
\* and the geonames fallback both did.
LookupDegraded(api_type, xs) ==
    IF api_type = "india" THEN Degraded(xs[1]) /\ Degraded(xs[2]) ELSE Degraded(xs[1])

FetchingLookups == { co \in BagToSet(lookups) : co.pc = "fetch" }

\* C11: when the upstream lookup of an integrated country degrades, the
\* lookup answers 200 with a result that has requires_manual = true.
C11_DegradedUpstreamRequiresManual ==
    [][\A co \in FetchingLookups :
           LET api_type == COUNTRY_CODE_RULES[co.country_code].api_type IN
           \A xs \in Exchanges(api_type) :
               (LookupDegraded(api_type, xs) /\ pincode_lookup_fetched(co, xs))
               => /\ response'.status_code = 200
                  /\ Get(response'.body, "requires_manual", FALSE)]_vars

---------------------------------------------------------------------------
(* C12 *)

RECURSIVE FetchedUpTo(_, _)
\* The fetched items of sources 1..s in source-then-feed order: the first ten
\* entries of each feed that was delivered, each with its source.
FetchedUpTo(endpoint, s) ==
    IF s = 0 THEN << >>
    ELSE FetchedUpTo(endpoint, s - 1) \o
         [i \in 1..Len(Take(feed_entries[s], 10)) |->
             [source |-> SourcesOf(endpoint)[s], entry |-> feed_entries[s][i]]]

FetchedItems(endpoint) == FetchedUpTo(endpoint, Len(feed_entries))

\* The lower-cased title+summary of a fetched item ...
ItemContent(item) ==
    lower(item.entry.title \o <<" ">> \o Get(item.entry, "summary", << >>))

\* ... and the same with the summary cut to its first 200 characters.
ItemContentCut(item) ==
    lower(item.entry.title \o <<" ">> \o Take(Get(item.entry, "summary", << >>), 200))

MatchesGlobal(endpoint, item) == any_keyword(ItemContent(item), KeywordsOf(endpoint))

MatchesSourceAndGlobal(endpoint, item) ==
    /\ any_keyword(ItemContent(item), item.source.keywords)
    /\ any_keyword(ItemContentCut(item), KeywordsOf(endpoint))

ItemKeys(items) ==
    [i \in DOMAIN items |-> <<items[i].source.name, items[i].entry.title, items[i].entry.link>>]

ArticleKeys(articles) ==
    [i \in DOMAIN articles |-> <<articles[i].source, articles[i].title, articles[i].link>>]

---------------------------------------------------------------------------
(* C13 *)

IsPrices(resp) == resp.endpoint = "live_basmati_prices"

\* current_price - base_price of an entry, in cents.
PriceMove(p) == p.current_price - p.base_price

\* C13: in every entry of a prices response, trend is "up" iff
\* current_price - base_price > 5, "down" iff it is < -5 and "stable"
\* otherwise; change is a delta string with sign "+" when trend is "up" and
\* with sign "-" when it is "down", and is null when trend is "stable".
C13_TrendMatchesMove ==
    IsPrices(response) =>
        \A i \in DOMAIN response.body.prices :
            LET p == response.body.prices[i] IN
            /\ p.trend = "up" <=> PriceMove(p) > Cents(5)
            /\ p.trend = "down" <=> PriceMove(p) < -Cents(5)
            /\ p.trend = "stable" <=> (PriceMove(p) <= Cents(5) /\ PriceMove(p) >= -Cents(5))
            /\ p.trend = "up" => p.change # None /\ Head(p.change) = "+"
            /\ p.trend = "down" => p.change # None /\ Head(p.change) = "-"
            /\ p.trend = "stable" <=> p.change = None

\* C13 witness: one response with a price exactly 5.00 above its base
\* (stable, no change), one 5.01 above ("+$5.0") and one 5.01 below ("-$5.0").
C13_Witness ==
    /\ IsPrices(response)
    /\ \E i, j, k \in DOMAIN response.body.prices :
           LET p == response.body.prices[i]
               q == response.body.prices[j]
               r == response.body.prices[k]
           IN  /\ PriceMove(p) = Cents(5) /\ p.trend = "stable" /\ p.change = None
               /\ PriceMove(q) = Cents(5) + 1 /\ q.trend = "up"
               /\ q.change = <<"+", "$", "5", ".", "0">>
               /\ PriceMove(r) = -Cents(5) - 1 /\ r.trend = "down"
               /\ r.change = <<"-", "$", "5", ".", "0">>

---------------------------------------------------------------------------
(* C14 *)

\* The request has made the cache check of line 213 and not yet the insert
\* of line 275: it is inside its read-modify-write of the cache.
InsideReadModifyWrite(co) == co.pc = "fetch"

\* C14: cache mutation is mutually exclusive: no two requests are inside a
\* cache read-modify-write at the same time.
C14_MutualExclusion ==
    \A co \in BagToSet(lookups) :
        InsideReadModifyWrite(co) =>
            /\ CopiesIn(co, lookups) = 1
            /\ \A other \in BagToSet(lookups) \ {co} : ~ InsideReadModifyWrite(other)

---------------------------------------------------------------------------
(* C15 *)

\* C15: in every response of a feed endpoint, count is the number of items
\* of the articles list, and that list has at most 20 items.
C15_CountIsLengthOfArticles ==
    \A endpoint \in Endpoints :
        FeedAnswered(endpoint) =>
            /\ response.body.count = Len(response.body.articles)
            /\ Len(response.body.articles) <= 20

---------------------------------------------------------------------------
(* C16 *)

AllRequests == LookupRequests \cup ManualRequests \cup UpstreamRequests

\* The step is one in which request r stores: its arrival, or the return of
\* its upstream fetch.
StoresFor(r) ==
    \/ pincode_lookup(r[1], r[2])
    \/ Resumes(Coroutine("fetch", r[1], r[2]), "fetch")

\* C16: a request answered with 400 leaves the cache as it was, and every
\* entry that enters the cache is stored by a request that passes both
\* validations, under that request's key, with a payload whose country and
\* pincode are those of that request.
C16_OnlyValidRequestsStore ==
    [][/\ (IsLookup(response') /\ response'.status_code = 400) => UNCHANGED pincode_cache
       /\ \A e \in Range(pincode_cache') \ Range(pincode_cache) :
              \E r \in AllRequests :
                  /\ Valid(r[1], r[2])
                  /\ e.key = cache_key(r[1], r[2])
                  /\ e.value.country = COUNTRY_CODE_RULES[r[1]].name
                  /\ e.value.pincode = r[2]
                  /\ StoresFor(r)]_vars

\* C16 witness: a request with too short a pincode has been answered with
\* 400 while the cache holds an entry of an earlier, valid request.
C16_Witness ==
    /\ IsLookup(response)
    /\ response.status_code = 400
    /\ response.country_code \in DOMAIN COUNTRY_CODE_RULES
    /\ \E e \in Range(pincode_cache) :
           /\ Fresh(e.key)
           /\ e.value.success
           /\ e.value.country = "India"

=============================================================================
